---- MODULE Spec2Model ----
(***************************************************************************)
(* The SQLite -> PostgreSQL migration scripts of the production orders     *)
(* app, as state machines.                                                 *)
(*                                                                         *)
(*   DM  DatabaseMigrator          src/postgresql/02-migrate-data.py       *)
(*   PM  ProductionMigration       src/postgresql-migration-script.py      *)
(*   MF  migrate_final             src/migrate-final.py                    *)
(*   PS  migrate_production_stops  src/migrate-production-stops.py         *)
(*   CW  migrate_complete_working  src/migrate-complete-working.py         *)
(*   CF  migrate_complete_data     src/backup/migrate-complete-fixed.py    *)
(*   TS  the timestamp conversions of DM, PM and MF                        *)
(*                                                                         *)
(* The source store (SQLite) is read only.  The target store (PostgreSQL)  *)
(* is modelled by its committed contents, the view of the transaction in   *)
(* flight, and the "aborted" flag of that transaction: after a statement   *)
(* fails on the server every later statement of the transaction fails, and *)
(* COMMIT then discards the transaction.  The target enforces primary and  *)
(* foreign keys (02-migrate-data.py:321, migrate-final.py:259).            *)
(***************************************************************************)
EXTENDS Integers, Sequences, FiniteSets, TLC

VARIABLES
    sqlite,             \* source store: table name -> its rows
    pg,                 \* target store: table name -> its committed rows
    pgTx,               \* target store as the transaction in flight sees it
    txAborted,          \* a statement of the transaction in flight failed on the server
    started,            \* DM, PM: the tables whose step began, in order (this run)
    outcome,            \* DM, PM: table -> how its step ended (this run)
    pcDM,               \* DM: position in run_migration
    stepIdx,            \* DM: index into migration_steps
    migration_summary,  \* DM: step -> returned count
    validation_results, \* DM: table -> counts match
    resultDM,           \* DM: what run_migration returned ("none" before it returns)
    connOpen,           \* DM: the two connections are open
    run,                \* DM: 1 for the first run, 2 for the rerun
    pgBefore,           \* DM: the target as it was when the last step began
    failedPage,         \* DM: table -> the page of execute_values that failed (0: none)
    countsAfterFirst,   \* DM: rows per target table after the first run
    pcPM,               \* PM: position in run_migration
    tblIdx,             \* PM: index into migration_tables
    rowIdx,             \* PM: index of the next row of the table
    migrated_count,     \* PM: migrate_table_with_validation's counter
    error_count,        \* PM: migrate_table_with_validation's counter
    okRows,             \* PM: rows of the table seen so far that the target accepts
    resultPM,           \* PM: what run_migration returned ("none" before it returns)
    pcMF,               \* MF: position in migrate_final
    pgSeq,              \* MF, CW: last value of the target's production_orders_id_seq;
                        \* CF: table -> last value of its id sequence
    valid_machine_ids,  \* MF
    valid_user_ids,     \* MF
    orderIdx,           \* MF: index of the next source order
    migrated_orders,    \* MF
    skipped_orders,     \* MF
    migrated_order_ids, \* MF
    stopIdx,            \* MF: index of the next source stop
    migrated_stops,     \* MF
    resultMF,           \* MF: what migrate_final returned ("none" before it returns)
    statusNullable,     \* target schema: production_orders.status accepts NULL
    pcPS,               \* PS: position in migrate_production_stops
    order_id_map,       \* PS: source order id -> target order id
    default_user_id,    \* PS
    skipped_stops,      \* PS
    resultPS,           \* PS: what migrate_production_stops returned
    pcTS,               \* TS: position of the timestamp conversions
    tsIn,               \* TS: the text given to the conversions
    tsDM,               \* TS: what convert_sqlite_timestamp returned
    tsPM,               \* TS: what convert_datetime_to_timestamptz returned
    tsBack,             \* TS: convert_sqlite_timestamp of the text form of tsDM
    tsCT,               \* TS: what clean_timestamp returned
    pcCW,               \* CW: position in migrate_complete_working
    resultCW,           \* CW: what migrate_complete_working returned
    pcCF,               \* CF: position in migrate_complete_data
    resultCF,           \* CF: what migrate_complete_data returned
    machine_id_map      \* CF: source machine id -> target machine id

varsStore == <<sqlite, pg, pgTx, txAborted>>
varsPlan == <<started, outcome>>
varsDM == <<pcDM, stepIdx, migration_summary, validation_results, resultDM,
            connOpen, run, pgBefore, failedPage, countsAfterFirst>>
varsPM == <<pcPM, tblIdx, rowIdx, migrated_count, error_count, okRows, resultPM>>
varsMF == <<pcMF, pgSeq, valid_machine_ids, valid_user_ids, orderIdx, migrated_orders,
            skipped_orders, migrated_order_ids, stopIdx, migrated_stops, resultMF>>
varsPS == <<pcPS, order_id_map, default_user_id, skipped_stops, resultPS>>
varsTS == <<pcTS, tsIn, tsDM, tsPM, tsBack, tsCT>>
varsCW == <<pcCW, resultCW>>
varsCF == <<pcCF, resultCF, machine_id_map>>
varsMore == <<statusNullable, varsPS, varsTS, varsCW, varsCF>>
vars == <<varsStore, varsPlan, varsDM, varsPM, varsMF, varsMore>>

(***************************************************************************)
(* Bounds of the model.                                                    *)
(***************************************************************************)
\* Source production_orders holds at most this many rows.
MaxOrders == 2
\* Rows per page of execute_values (page_size=1000 in the code, scaled down
\* so that a table of MaxOrders rows spans more than one page).
PageSize == 1

\* Python's None / SQL NULL.  Keys are positive.
None == -1

Range(s) == {s[i] : i \in DOMAIN s}

\* The source store after the statements a script runs on its SQLite cursor:
\* SELECT and PRAGMA table_info only, no write and no commit.
\* (The mutant drops a table.)
AfterDropTable(src) == [t \in DOMAIN src \ {"production_stops"} |-> src[t]]
AfterSelect(src) == src
Min(a, b) == IF a < b THEN a ELSE b

(***************************************************************************)
(* Rows.  Only the columns the migration logic looks at are kept: the      *)
(* primary key, the foreign keys, the natural key of environments, and     *)
(* whether the target rejects the row's data (a NOT NULL or type error).   *)
(***************************************************************************)
Row(i, m, o, oid, c, b) ==
    [id |-> i, machine_id |-> m, operator_id |-> o, order_id |-> oid,
     code |-> c, bad |-> b]

\* Source tables of at most n rows with keys 1..k, row i drawn from Choices(i).
TablesUpTo(n, Choices(_)) ==
    UNION { {s \in [1..k -> UNION {Choices(i) : i \in 1..k}] :
                \A i \in 1..k : s[i] \in Choices(i)} : k \in 0..n }

UserRow(i) == {Row(i, None, None, None, None, b) : b \in BOOLEAN}
MachineRow(i) == {Row(i, None, None, None, None, b) : b \in BOOLEAN}
EnvRow(i) == {Row(i, None, None, None, i, FALSE)}
OrderRow(i) == {Row(i, m, o, None, None, FALSE) : m \in {None, 1}, o \in {None, 1}}
StopRow(i) == {Row(i, None, None, oid, None, FALSE) : oid \in 1..MaxOrders}

\* The tables DatabaseMigrator touches, in the order of migration_steps.
migration_steps_swapped ==
    <<"production_orders", "users", "machines", "environments", "production_stops">>
migration_steps ==
    <<"users", "machines", "environments", "production_orders", "production_stops">>

DMTables == Range(migration_steps)

\* The foreign keys of the target schema: table -> the tables it references.
Deps(t) ==
    CASE t = "production_orders" -> {"users", "machines"}
      [] t = "production_stops" -> {"production_orders"}
      [] t = "production_waste" -> {"production_orders"}
      [] OTHER -> {}

(***************************************************************************)
(* The target's checks on one inserted row, against the view of the        *)
(* transaction.                                                            *)
(***************************************************************************)
HasKey(rows, k) == \E x \in rows : x.id = k

FKOk(t, r, view) ==
    CASE t = "production_orders" ->
            /\ r.machine_id = None \/ HasKey(view["machines"], r.machine_id)
            /\ r.operator_id = None \/ HasKey(view["users"], r.operator_id)
      [] t = "production_stops" ->
            /\ HasKey(view["production_orders"], r.order_id)
            /\ r.operator_id = None \/ HasKey(view["users"], r.operator_id)
      [] OTHER -> TRUE

\* ON CONFLICT DO NOTHING: any unique violation skips the row.
\* ON CONFLICT (code) DO NOTHING: only a duplicate code skips the row.
\* (The mutant is a plain INSERT, without ON CONFLICT.)
NeverSkipped(t, r, view) == FALSE
Skipped(t, r, view) ==
    IF t = "environments"
    THEN \E x \in view[t] : x.code = r.code
    ELSE HasKey(view[t], r.id)

\* The statement inserting r raises: bad data is rejected before the conflict
\* check; a row that is not skipped must have a fresh key and valid references.
InsertRaises(t, r, view) ==
    \/ r.bad
    \/ /\ ~Skipped(t, r, view)
       /\ HasKey(view[t], r.id) \/ ~FKOk(t, r, view)

(***************************************************************************)
(* DatabaseMigrator (02-migrate-data.py)                                   *)
(***************************************************************************)
\* execute_values: one INSERT statement per page of PageSize rows, all in the
\* transaction in flight.  Returns the view after the last page, or the page
\* whose statement raised.
RECURSIVE execute_values(_, _, _, _)
execute_values(t, rows, view, p) ==
    IF (p - 1) * PageSize >= Len(rows)
    THEN [view |-> view, failed |-> 0]
    ELSE LET page == {rows[i] : i \in ((p - 1) * PageSize + 1)..Min(p * PageSize, Len(rows))}
         IN  IF \E r \in page : InsertRaises(t, r, view)
             THEN [view |-> view, failed |-> p]
             ELSE execute_values(t, rows,
                    [view EXCEPT ![t] = @ \cup {r \in page : ~Skipped(t, r, view)}],
                    p + 1)

\* What the target holds after the except branch: rollback() discards every
\* page of the call.  (The mutant keeps the pages before the failing one, as
\* a commit per page would.)
KeepEarlierPages(before, view) == view
AfterRollback(before, view) == before

\* migrate_table_data, and the body of migrate_environments (whenEmpty is what
\* the call returns for an empty source table: 0, or None by falling off the
\* end of migrate_environments).
MigrateRows(t, db, whenEmpty) ==
    LET rows == sqlite[t]
        r == execute_values(t, rows, db, 1)
    IN  IF rows = <<>>
        THEN [pg |-> db, count |-> whenEmpty, outcome |-> "empty", failed |-> 0]
        ELSE IF r.failed # 0
        THEN [pg |-> AfterRollback(db, r.view), count |-> 0,
              outcome |-> "rolledback", failed |-> r.failed]
        ELSE [pg |-> r.view, count |-> Len(rows),
              outcome |-> "committed", failed |-> 0]

migrate_table_data(t, db) == MigrateRows(t, db, 0)
migrate_environments(db) == MigrateRows("environments", db, None)

migration_func(t, db) ==
    IF t = "environments" THEN migrate_environments(db) ELSE migrate_table_data(t, db)

\* The loop of run_migration goes on to the next step whatever the step
\* returned.  (The mutant stops the plan at a step that returned 0.)
StopOnFailure(count) == count # 0
ContinueAfter(count) == TRUE

\* validate_migration: 'match' of each checked table.
\* (The mutant compares the source count with itself.)
validate_source_only(db) ==
    [t \in DMTables |-> Len(sqlite[t]) = Len(sqlite[t])]
validate_migration(db) ==
    [t \in DMTables |-> Len(sqlite[t]) = Cardinality(db[t])]

NoRows == [t \in DMTables |-> {}]
NoOutcome == [t \in DMTables |-> "none"]
NoSummary == [t \in DMTables |-> 0]
Counts(db) == [t \in DMTables |-> Cardinality(db[t])]

\* The state of a program that is not the one running.
IdleDM ==
    /\ pcDM = "off"
    /\ stepIdx = 0
    /\ migration_summary = <<>>
    /\ validation_results = <<>>
    /\ resultDM = "none"
    /\ connOpen = FALSE
    /\ run = 0
    /\ pgBefore = <<>>
    /\ failedPage = <<>>
    /\ countsAfterFirst = <<>>

IdlePM ==
    /\ pcPM = "off"
    /\ tblIdx = 0
    /\ rowIdx = 0
    /\ migrated_count = 0
    /\ error_count = 0
    /\ okRows = 0
    /\ resultPM = "none"

IdleMF ==
    /\ pcMF = "off"
    /\ pgSeq = 0
    /\ valid_machine_ids = {}
    /\ valid_user_ids = {}
    /\ orderIdx = 0
    /\ migrated_orders = 0
    /\ skipped_orders = 0
    /\ migrated_order_ids = {}
    /\ stopIdx = 0
    /\ migrated_stops = 0
    /\ resultMF = "none"

IdleCW ==
    /\ pcCW = "off"
    /\ resultCW = "none"

IdleCF ==
    /\ pcCF = "off"
    /\ resultCF = "none"
    /\ machine_id_map = <<>>

IdleMore ==
    /\ IdleCW
    /\ IdleCF
    /\ pcPS = "off"
    /\ order_id_map = <<>>
    /\ default_user_id = 0
    /\ skipped_stops = 0
    /\ resultPS = "none"
    /\ pcTS = "off"
    /\ tsIn = <<>>
    /\ tsDM = <<>>
    /\ tsPM = <<>>
    /\ tsBack = <<>>
    /\ tsCT = <<>>

InitDM ==
    /\ IdlePM
    /\ IdleMF
    /\ IdleMore
    /\ statusNullable = TRUE
    /\ sqlite \in [users : TablesUpTo(1, UserRow),
                   machines : TablesUpTo(1, MachineRow),
                   environments : TablesUpTo(1, EnvRow),
                   production_orders : TablesUpTo(MaxOrders, OrderRow),
                   production_stops : TablesUpTo(1, StopRow)]
    /\ pg \in [users : SUBSET {Row(1, None, None, None, None, FALSE)},
               machines : SUBSET {Row(1, None, None, None, None, FALSE)},
               environments : {{}},
               production_orders : {{}},
               production_stops : {{}}]
    /\ pgTx = pg
    /\ txAborted = FALSE
    /\ started = <<>>
    /\ outcome = NoOutcome
    /\ pcDM = "steps"
    /\ stepIdx = 1
    /\ migration_summary = NoSummary
    /\ validation_results = [t \in DMTables |-> FALSE]
    /\ resultDM = "none"
    /\ connOpen = TRUE
    /\ run = 1
    /\ pgBefore = pg
    /\ failedPage = NoSummary
    /\ countsAfterFirst = NoSummary

\* One iteration of "for step_name, migration_func in migration_steps".
DM_Step ==
    /\ pcDM = "steps"
    /\ LET t == migration_steps[stepIdx]
           r == migration_func(t, pg)
       IN  /\ started' = Append(started, t)
           /\ pg' = r.pg
           /\ pgTx' = r.pg
           /\ pgBefore' = pg
           /\ outcome' = [outcome EXCEPT ![t] = r.outcome]
           /\ failedPage' = [failedPage EXCEPT ![t] = r.failed]
           /\ migration_summary' = [migration_summary EXCEPT ![t] = r.count]
           /\ IF stepIdx < Len(migration_steps) /\ ContinueAfter(r.count)
              THEN stepIdx' = stepIdx + 1 /\ pcDM' = "steps"
              ELSE stepIdx' = stepIdx /\ pcDM' = "validate"
    /\ sqlite' = AfterSelect(sqlite)
    /\ UNCHANGED <<txAborted, validation_results, resultDM, connOpen, run,
                   countsAfterFirst, varsPM, varsMF, varsMore>>

DM_Validate ==
    /\ pcDM = "validate"
    /\ validation_results' = validate_migration(pg)
    /\ pcDM' = "summary"
    /\ sqlite' = AfterSelect(sqlite)
    /\ UNCHANGED <<pg, pgTx, txAborted, varsPlan, stepIdx, migration_summary, resultDM, connOpen,
                   run, pgBefore, failedPage, countsAfterFirst, varsPM, varsMF, varsMore>>

\* sum(migration_summary.values()) raises TypeError on a None count, and the
\* exception leaves run_migration before close_connections.
DM_Summary ==
    /\ pcDM = "summary"
    /\ IF \E t \in DMTables : migration_summary[t] = None
       THEN /\ pcDM' = "raised"
            /\ UNCHANGED <<resultDM, connOpen>>
       ELSE /\ pcDM' = "done"
            /\ resultDM' = IF \A t \in DMTables : validation_results[t]
                           THEN "True" ELSE "False"
            /\ connOpen' = FALSE
    /\ UNCHANGED <<varsStore, varsPlan, stepIdx, migration_summary, validation_results,
                   run, pgBefore, failedPage, countsAfterFirst, varsPM, varsMF, varsMore>>

\* The script is run a second time against the same source and the target
\* the first run left.
DM_Rerun ==
    /\ pcDM \in {"done", "raised"}
    /\ run = 1
    /\ run' = 2
    /\ countsAfterFirst' = Counts(pg)
    /\ started' = <<>>
    /\ outcome' = NoOutcome
    /\ pcDM' = "steps"
    /\ stepIdx' = 1
    /\ migration_summary' = NoSummary
    /\ validation_results' = [t \in DMTables |-> FALSE]
    /\ resultDM' = "none"
    /\ connOpen' = TRUE
    /\ pgBefore' = pg
    /\ failedPage' = NoSummary
    /\ UNCHANGED <<varsStore, varsPM, varsMF, varsMore>>

NextDM == DM_Step \/ DM_Validate \/ DM_Summary \/ DM_Rerun

SpecDM == InitDM /\ [][NextDM]_vars

(***************************************************************************)
(* Claims about DatabaseMigrator                                           *)
(***************************************************************************)
FinishedDM == pcDM \in {"done", "raised"}

\* C1: a second run of run_migration against the same source, started from
\* the target the first run left, ends with the same row count in every
\* target table as the first run: it adds no row.
C1_SecondRunAddsNothing ==
    (run = 2 /\ FinishedDM) => Counts(pg) = countsAfterFirst

C1_Witness ==
    /\ run = 2
    /\ pcDM = "done"
    /\ Cardinality(pg["production_orders"]) = 2
    /\ Cardinality(pg["production_stops"]) = 1
    /\ outcome["production_orders"] = "committed"

MaxRowsPM == 11
\* At most this many source tables hold rows.
MaxLoaded == 2

\* "if error_count > 10" (postgresql-migration-script.py:148).
ErrorLimit == 10

RowKinds == {"ok", "client", "server"}

migration_tables ==
    <<"users", "environments", "machines", "production_orders", "production_stops",
      "production_waste", "labor_assignments", "daily_attendance", "shift_supervisors",
      "shift_reports", "quantity_updates", "system_settings">>

PMTables == Range(migration_tables)

\* "if error_count > 10: raise".  (The mutant stops one failure early.)
AtLeastLimit(n) == n >= ErrorLimit
TooManyErrors(n) == n > ErrorLimit

\* pg_cursor.execute raises for this row: the row itself is refused, or the
\* transaction is already aborted (InFailedSqlTransaction).
ExecuteRaises(kind, aborted) == kind # "ok" \/ aborted

\* conn.commit(): an aborted transaction is rolled back by COMMIT.
CommitView(committed, view, aborted) == IF aborted THEN committed ELSE view

\* run_migration stops at the first table whose step returned False.
\* (The mutant goes on with the next table.)
IgnoreFailure(success) == FALSE
StopsPlan(success) == ~success

InitPM ==
    /\ IdleDM
    /\ IdleMF
    /\ IdleMore
    /\ statusNullable = TRUE
    /\ \E L \in SUBSET PMTables :
         /\ Cardinality(L) <= MaxLoaded
         /\ \E f \in [L -> {1, MaxRowsPM}] :
               /\ Cardinality({t \in L : f[t] > 1}) <= 1
               /\ sqlite = [t \in PMTables |-> IF t \in L THEN f[t] ELSE 0]
    /\ pg = [t \in PMTables |-> 0]
    /\ pgTx = pg
    /\ txAborted = FALSE
    /\ started = <<>>
    /\ outcome = [t \in PMTables |-> "none"]
    /\ pcPM = "table"
    /\ tblIdx = 1
    /\ rowIdx = 0
    /\ migrated_count = 0
    /\ error_count = 0
    /\ okRows = 0
    /\ resultPM = "none"

\* What run_migration does with the value a table's step returned.
AfterTable(success) ==
    IF StopsPlan(success)
    THEN pcPM' = "done" /\ resultPM' = "False" /\ tblIdx' = tblIdx
    ELSE /\ resultPM' = resultPM
         /\ IF tblIdx < Len(migration_tables)
            THEN pcPM' = "table" /\ tblIdx' = tblIdx + 1
            ELSE pcPM' = "validation" /\ tblIdx' = tblIdx

\* migrate_table_with_validation up to the row loop: an empty table is
\* skipped and reported as a success.
PM_BeginTable ==
    /\ pcPM = "table"
    /\ LET t == migration_tables[tblIdx]
       IN  /\ started' = Append(started, t)
           /\ migrated_count' = 0
           /\ error_count' = 0
           /\ okRows' = 0
           /\ IF sqlite[t] = 0
              THEN /\ outcome' = [outcome EXCEPT ![t] = "empty"]
                   /\ rowIdx' = 0
                   /\ AfterTable(TRUE)
              ELSE /\ outcome' = outcome
                   /\ rowIdx' = 1
                   /\ pcPM' = "rows"
                   /\ UNCHANGED <<tblIdx, resultPM>>
    /\ sqlite' = AfterSelect(sqlite)
    /\ UNCHANGED <<pg, pgTx, txAborted, varsDM, varsMF, varsMore>>

\* One iteration of "for row in rows".
PM_Row ==
    /\ pcPM = "rows"
    /\ rowIdx <= sqlite[migration_tables[tblIdx]]
    /\ \E kind \in RowKinds :
         LET t == migration_tables[tblIdx]
         IN  /\ okRows' = okRows + (IF kind = "ok" THEN 1 ELSE 0)
             /\ IF ExecuteRaises(kind, txAborted)
                THEN /\ error_count' = error_count + 1
                     /\ migrated_count' = migrated_count
                     /\ IF TooManyErrors(error_count + 1)
                        THEN \* raise -> the outer except: rollback, return False
                             /\ pgTx' = pg
                             /\ txAborted' = FALSE
                             /\ outcome' = [outcome EXCEPT ![t] = "failed"]
                             /\ rowIdx' = rowIdx
                             /\ AfterTable(FALSE)
                        ELSE /\ txAborted' = (txAborted \/ kind = "server")
                             /\ rowIdx' = rowIdx + 1
                             /\ UNCHANGED <<pgTx, outcome, pcPM, tblIdx, resultPM>>
                ELSE /\ pgTx' = [pgTx EXCEPT ![t] = @ + 1]
                     /\ migrated_count' = migrated_count + 1
                     /\ rowIdx' = rowIdx + 1
                     /\ UNCHANGED <<error_count, txAborted, outcome, pcPM, tblIdx, resultPM>>
    /\ UNCHANGED <<sqlite, pg, started, varsDM, varsMF, varsMore>>

\* After the loop: commit, return True.  (self.migration_stats is written
\* here and read only by the final log lines; it is not kept.)
PM_Commit ==
    /\ pcPM = "rows"
    /\ rowIdx > sqlite[migration_tables[tblIdx]]
    /\ LET t == migration_tables[tblIdx]
       IN  /\ pg' = CommitView(pg, pgTx, txAborted)
           /\ pgTx' = pg'
           /\ txAborted' = FALSE
           /\ outcome' = [outcome EXCEPT ![t] = "committed"]
           /\ AfterTable(TRUE)
    /\ UNCHANGED <<sqlite, started, rowIdx, migrated_count, error_count, okRows, varsDM, varsMF, varsMore>>

\* run_data_validation only reads; run_migration returns True.
PM_Finish ==
    /\ pcPM = "validation"
    /\ pcPM' = "done"
    /\ resultPM' = "True"
    /\ UNCHANGED <<varsStore, varsPlan, tblIdx, rowIdx, migrated_count, error_count,
                   okRows, varsDM, varsMF, varsMore>>

NextPM == PM_BeginTable \/ PM_Row \/ PM_Commit \/ PM_Finish

SpecPM == InitPM /\ [][NextPM]_vars

\* Both runners of a migration plan.
SpecPlan == (InitDM \/ InitPM) /\ [][NextDM \/ NextPM]_vars

(***************************************************************************)
(* Claims about ProductionMigration and about the order of the plans       *)
(***************************************************************************)
\* The table whose step began last.
LastStarted == started[Len(started)]

\* C3: in both run_migration loops a table's step starts only after the step
\* of every table it references by foreign key has started and ended: users
\* and machines before production_orders, production_orders before
\* production_stops and production_waste.
C3_ReferencedTablesFirst ==
    \A i \in DOMAIN started : \A d \in Deps(started[i]) :
        \E j \in 1..(i - 1) : started[j] = d /\ outcome[d] # "none"

C3_Witness ==
    /\ pcPM = "rows"
    /\ LastStarted = "production_waste"
    /\ outcome["production_orders"] = "committed"

\* C7 as claimed: when the step of a table has gone through all its rows,
\* error_count is the number of rows whose own insert fails, and every row
\* whose insert succeeds on its own is committed.
C7_RowFailuresIsolated ==
    (pcPM \in {"table", "validation", "done"} /\ started # <<>>) =>
        (outcome[LastStarted] = "committed" =>
            /\ error_count = sqlite[LastStarted] - okRows
            /\ pg[LastStarted] = okRows)

\* C8 as claimed: the step of a table stops at its 10th row failure, rolled
\* back and failed; with fewer failures it commits and succeeds.
C8_StopsAtTenthFailure ==
    /\ pcPM = "rows" => error_count < ErrorLimit
    /\ (pcPM = "done" /\ started # <<>>) =>
          (outcome[LastStarted] = "failed" => error_count = ErrorLimit)

\* C8 as amended: the step of a table stops at its 11th row failure
\* (error_count > 10): the transaction is rolled back, no row of the table is
\* committed and the run returns False; with 10 failures or fewer commit is
\* called and the step is reported successful.
C8_StopsAtEleventhFailure ==
    /\ pcPM = "rows" => error_count <= ErrorLimit
    /\ (pcPM \in {"table", "validation", "done"} /\ started # <<>>) =>
          /\ outcome[LastStarted] = "failed" =>
                /\ error_count = ErrorLimit + 1
                /\ pg[LastStarted] = 0
                /\ pgTx = pg /\ ~txAborted
                /\ pcPM = "done" /\ resultPM = "False"
          /\ outcome[LastStarted] = "committed" =>
                /\ error_count <= ErrorLimit
                /\ pgTx = pg /\ ~txAborted
                /\ resultPM # "False"

C8_Witness ==
    /\ pcPM = "done"
    /\ outcome[LastStarted] = "failed"
    /\ error_count = ErrorLimit + 1
    /\ okRows > 0

\* C9: when the step of a table fails, no later table is migrated, the run
\* returns False, and the rows committed by the earlier tables of the run
\* stay in the target.
C9_FailedTableEndsRun ==
    /\ [](\A i \in DOMAIN started :
            outcome[started[i]] = "failed" =>
                i = Len(started) /\ pcPM = "done" /\ resultPM = "False")
    /\ [][\A t \in PMTables : outcome[t] = "committed" => pg'[t] = pg[t]]_vars

C9_Witness ==
    /\ pcPM = "done"
    /\ resultPM = "False"
    /\ outcome[LastStarted] = "failed"
    /\ LastStarted = "production_orders"
    /\ outcome["users"] = "committed"
    /\ pg["users"] = 1

(***************************************************************************)
(* migrate_final (migrate-final.py)                                        *)
(*                                                                         *)
(* The source keeps the ids of machines and the rows of production_orders  *)
(* and production_stops; the target keeps the ids of users and machines    *)
(* and the rows of production_orders and production_stops.  Orders and     *)
(* stops are inserted without an id: the target draws it from its          *)
(* sequence.  A target row also records the source row it was made from    *)
(* (src_id, src_order): columns of the model only, that no action reads.   *)
(* The target holds no production_stops when the script starts.            *)
(***************************************************************************)
OrderNumber(i) == 100 + i

\* Python's None in a text column (status, priority and environment are
\* handled alike; status stands for the three).
NoStatus == "None"

SrcOrder(i, m, o, c, st) ==
    [id |-> i, order_number |-> OrderNumber(i), machine_id |-> m, operator_id |-> o,
     created_by |-> c, status |-> st]
SrcStop(i, oid, o) == [id |-> i, order_id |-> oid, operator_id |-> o]

MFOrderRow(i) ==
    {SrcOrder(i, m, o, c, st) : m \in {None, 1}, o \in {None, 2}, c \in {None, 2},
                                st \in {NoStatus, "active"}}
MFStopRow(i) == {SrcStop(i, oid, o) : oid \in 1..MaxOrders, o \in {None, 2}}

\* An order the target already holds, left by an earlier migration
\* (src_id 0: not made from a source row by this run).
OldOrder ==
    [id |-> 1, order_number |-> OrderNumber(1), machine_id |-> None,
     operator_id |-> None, created_by |-> None, status |-> "pending", src_id |-> 0]

Ids(rows) == {x.id : x \in rows}

\* "SELECT DISTINCT id FROM machines" on the SQLite cursor (migrate-final.py:46).
ValidMachineIds(src) == src["machines"]

\* "if machine_id and machine_id not in valid_machine_ids: machine_id = None"
NullIfInvalid(key, valid) == IF key # None /\ key \notin valid THEN None ELSE key

\* "order_data.get('created_by', 1) if order_data.get('created_by') in
\* valid_user_ids else 1"
CreatedBy(key, valid) == IF key \in valid THEN key ELSE 1

\* "if operator_id and operator_id not in valid_user_ids: operator_id = 1"
StopOperator(key, valid) == IF key # None /\ key \notin valid THEN 1 ELSE key

\* "order_data.get('status', 'pending')": order_data has a key for every
\* column of the source table, so get returns the row's value, None included;
\* the default would stand in only for a column the table does not have.
DictGet(value, default) == value

\* The row migrate_final inserts for source order o.
TransformOrder(o) ==
    [order_number |-> o.order_number,
     machine_id |-> NullIfInvalid(o.machine_id, valid_machine_ids),
     operator_id |-> NullIfInvalid(o.operator_id, valid_user_ids),
     created_by |-> CreatedBy(o.created_by, valid_user_ids),
     status |-> DictGet(o.status, "pending"),
     src_id |-> o.id]

\* The target's foreign keys on production_orders and production_stops.
OrderRefsOk(r, view) ==
    /\ r.machine_id = None \/ r.machine_id \in view["machines"]
    /\ r.operator_id = None \/ r.operator_id \in view["users"]
    /\ r.created_by = None \/ r.created_by \in view["users"]

\* The target refuses a NULL status when the column is NOT NULL.
StatusOk(r) == r.status # NoStatus \/ statusNullable

StopRefsOk(r, view) ==
    /\ r.order_id \in Ids(view["production_orders"])
    /\ r.operator_id = None \/ r.operator_id \in view["users"]

InitMF ==
    /\ IdleDM
    /\ IdlePM
    /\ IdleMore
    /\ statusNullable \in BOOLEAN
    /\ sqlite \in [machines : SUBSET {1},
                   production_orders : TablesUpTo(MaxOrders, MFOrderRow),
                   production_stops : TablesUpTo(1, MFStopRow)]
    /\ pg \in [users : SUBSET {1, 2},
               machines : SUBSET {1},
               production_orders : {{}, {OldOrder}},
               production_stops : {{}}]
    /\ pgSeq \in {0, 1}
    /\ pg["production_orders"] # {} => pgSeq = 1
    /\ pgTx = pg
    /\ txAborted = FALSE
    /\ started = <<>>
    /\ outcome = <<>>
    /\ pcMF = "start"
    /\ valid_machine_ids = {}
    /\ valid_user_ids = {}
    /\ orderIdx = 0
    /\ migrated_orders = 0
    /\ skipped_orders = 0
    /\ migrated_order_ids = {}
    /\ stopIdx = 0
    /\ migrated_stops = 0
    /\ resultMF = "none"

\* Steps 1 and 2 up to the loop: the key sets, and
\* "DELETE FROM production_orders" in the transaction in flight.
MF_Start ==
    /\ pcMF = "start"
    /\ valid_machine_ids' = ValidMachineIds(sqlite)
    /\ valid_user_ids' = pg["users"]
    /\ pgTx' = [pgTx EXCEPT !["production_orders"] = {}]
    /\ orderIdx' = 1
    /\ pcMF' = "orders"
    /\ sqlite' = AfterSelect(sqlite)
    /\ UNCHANGED <<pg, txAborted, varsPlan, pgSeq, migrated_orders, skipped_orders,
                   migrated_order_ids, stopIdx, migrated_stops, resultMF, varsDM, varsPM, varsMore>>

\* One iteration of "for order in orders".  The INSERT raises when the
\* transaction is aborted or a foreign key or NOT NULL constraint is
\* violated; the exception is
\* caught and counted.  A statement the server ran drew an id from the
\* sequence, also when it then failed.
MF_Order ==
    /\ pcMF = "orders"
    /\ orderIdx <= Len(sqlite["production_orders"])
    /\ LET r == TransformOrder(sqlite["production_orders"][orderIdx])
           row == [id |-> pgSeq + 1, order_number |-> r.order_number,
                   machine_id |-> r.machine_id, operator_id |-> r.operator_id,
                   created_by |-> r.created_by, status |-> r.status,
                   src_id |-> r.src_id]
       IN  IF txAborted
           THEN /\ skipped_orders' = skipped_orders + 1
                /\ UNCHANGED <<pgTx, txAborted, pgSeq, migrated_orders>>
           ELSE IF ~OrderRefsOk(r, pgTx) \/ ~StatusOk(r)
           THEN /\ skipped_orders' = skipped_orders + 1
                /\ txAborted' = TRUE
                /\ pgSeq' = pgSeq + 1
                /\ UNCHANGED <<pgTx, migrated_orders>>
           ELSE /\ pgTx' = [pgTx EXCEPT !["production_orders"] = @ \cup {row}]
                /\ pgSeq' = pgSeq + 1
                /\ migrated_orders' = migrated_orders + 1
                /\ UNCHANGED <<txAborted, skipped_orders>>
    /\ orderIdx' = orderIdx + 1
    /\ UNCHANGED <<sqlite, pg, varsPlan, pcMF, valid_machine_ids, valid_user_ids,
                   migrated_order_ids, stopIdx, migrated_stops, resultMF, varsDM, varsPM, varsMore>>

\* "pg_conn.commit()" after the loop, and "if migrated_orders > 0".
MF_CommitOrders ==
    /\ pcMF = "orders"
    /\ orderIdx > Len(sqlite["production_orders"])
    /\ pg' = CommitView(pg, pgTx, txAborted)
    /\ pgTx' = pg'
    /\ txAborted' = FALSE
    /\ pcMF' = IF migrated_orders > 0 THEN "stops_begin" ELSE "summary"
    /\ UNCHANGED <<sqlite, varsPlan, pgSeq, valid_machine_ids, valid_user_ids, orderIdx,
                   migrated_orders, skipped_orders, migrated_order_ids, stopIdx,
                   migrated_stops, resultMF, varsDM, varsPM, varsMore>>

\* Step 3 up to the loop: the ids of the target's orders, and
\* "DELETE FROM production_stops".
MF_BeginStops ==
    /\ pcMF = "stops_begin"
    /\ migrated_order_ids' = Ids(pgTx["production_orders"])
    /\ pgTx' = [pgTx EXCEPT !["production_stops"] = {}]
    /\ stopIdx' = 1
    /\ pcMF' = "stops"
    /\ sqlite' = AfterSelect(sqlite)
    /\ UNCHANGED <<pg, txAborted, varsPlan, pgSeq, valid_machine_ids,
                   valid_user_ids, orderIdx, migrated_orders, skipped_orders,
                   migrated_stops, resultMF, varsDM, varsPM, varsMore>>

\* One iteration of "for stop in stops".
MF_Stop ==
    /\ pcMF = "stops"
    /\ stopIdx <= Len(sqlite["production_stops"])
    /\ LET s == sqlite["production_stops"][stopIdx]
           row == [order_id |-> s.order_id,
                   operator_id |-> StopOperator(s.operator_id, valid_user_ids),
                   src_id |-> s.id, src_order |-> s.order_id]
       IN  IF s.order_id \notin migrated_order_ids
           THEN UNCHANGED <<pgTx, txAborted, migrated_stops>>
           ELSE IF txAborted
           THEN UNCHANGED <<pgTx, txAborted, migrated_stops>>
           ELSE IF ~StopRefsOk(row, pgTx)
           THEN txAborted' = TRUE /\ UNCHANGED <<pgTx, migrated_stops>>
           ELSE /\ pgTx' = [pgTx EXCEPT !["production_stops"] = @ \cup {row}]
                /\ migrated_stops' = migrated_stops + 1
                /\ UNCHANGED txAborted
    /\ stopIdx' = stopIdx + 1
    /\ UNCHANGED <<sqlite, pg, varsPlan, pcMF, pgSeq, valid_machine_ids, valid_user_ids,
                   orderIdx, migrated_orders, skipped_orders, migrated_order_ids,
                   resultMF, varsDM, varsPM, varsMore>>

MF_CommitStops ==
    /\ pcMF = "stops"
    /\ stopIdx > Len(sqlite["production_stops"])
    /\ pg' = CommitView(pg, pgTx, txAborted)
    /\ pgTx' = pg'
    /\ txAborted' = FALSE
    /\ pcMF' = "summary"
    /\ UNCHANGED <<sqlite, varsPlan, pgSeq, valid_machine_ids, valid_user_ids, orderIdx,
                   migrated_orders, skipped_orders, migrated_order_ids, stopIdx,
                   migrated_stops, resultMF, varsDM, varsPM, varsMore>>

\* The summary and the test queries only read, each in its own try block;
\* migrate_final returns True.
MF_Summary ==
    /\ pcMF = "summary"
    /\ pcMF' = "done"
    /\ resultMF' = "True"
    /\ UNCHANGED <<varsStore, varsPlan, pgSeq, valid_machine_ids, valid_user_ids, orderIdx,
                   migrated_orders, skipped_orders, migrated_order_ids, stopIdx,
                   migrated_stops, varsDM, varsPM, varsMore>>

NextMF ==
    \/ MF_Start \/ MF_Order \/ MF_CommitOrders \/ MF_BeginStops
    \/ MF_Stop \/ MF_CommitStops \/ MF_Summary

SpecMF == InitMF /\ [][NextMF]_vars

OrdersCommittedMF == pcMF \in {"stops_begin", "stops", "summary", "done"}

\* What the null-out policy leaves of a reference: null for an orphan.
Repaired(key, present) == IF key \in present THEN key ELSE None

\* C4: once migrate_final has committed the orders, every source order has a
\* committed target row made from it, whose machine_id and operator_id are
\* null if they referenced a key absent from the referenced table and kept
\* otherwise; no order is lost to another order's failure.
C4_OrphansNulledAndCommitted ==
    OrdersCommittedMF =>
        \A i \in 1..Len(sqlite["production_orders"]) :
            LET o == sqlite["production_orders"][i]
            IN  \E r \in pg["production_orders"] :
                    /\ r.src_id = o.id
                    /\ r.machine_id = Repaired(o.machine_id, sqlite["machines"])
                    /\ r.operator_id = Repaired(o.operator_id, pg["users"])

\* C5: the key sets migrate_final validates foreign keys against hold only
\* primary keys present in the target, and every non-null machine_id,
\* operator_id and created_by of a committed target order is the key of a
\* target machine, respectively a target user.
C5_KeySetsAreTargetKeys ==
    pcMF # "start" =>
        /\ valid_machine_ids \subseteq pg["machines"]
        /\ valid_user_ids \subseteq pg["users"]
        /\ \A r \in pg["production_orders"] : OrderRefsOk(r, pg)

\* C6: every production stop committed by migrate_final has as order_id the
\* key of the target order made from the source order that the source stop
\* referenced.
C6_StopsFollowTheirOrder ==
    \A s \in pg["production_stops"] :
        \E r \in pg["production_orders"] :
            /\ r.id = s.order_id
            /\ r.src_id = s.src_order
            /\ r.order_number = OrderNumber(s.src_order)

(***************************************************************************)
(* The timestamp conversions                                               *)
(*   DatabaseMigrator.convert_sqlite_timestamp       (02-migrate-data.py)  *)
(*   ProductionMigration.convert_datetime_to_timestamptz                   *)
(*                                          (postgresql-migration-script)  *)
(*                                                                         *)
(* A text is kept by its parts: the wall-clock value it shows (in hours    *)
(* since an epoch), its shape ("T": date, 'T', time; "space": date, blank, *)
(* time; "date": a date alone), whether it shows fractional seconds, and   *)
(* its zone suffix ("" when it has none).  An instant is kept in hours of  *)
(* UTC.  The fraction is carried along unchanged.                          *)
(***************************************************************************)
\* Wall-clock values of the texts tried: 0..MaxWall.
MaxWall == 5

\* "SAST_OFFSET = timedelta(hours=2)"
SAST_OFFSET == 2

Zones == {"", "Z", "+00:00", "+02:00", "-05:00"}

ZoneOffset(z) ==
    CASE z = "+02:00" -> 2
      [] z = "-05:00" -> 0 - 5
      [] OTHER -> 0

Text(k, w, sh, f, z) == [kind |-> k, wall |-> w, shape |-> sh, frac |-> f, zone |-> z]

\* None, the empty string, and the texts that show a timestamp.
NoneText == Text("none", 0, "", FALSE, "")
EmptyText == Text("empty", 0, "", FALSE, "")
\* The literal 'null'; a text that shows no timestamp, with a 'T' in it or
\* without; a value that is no text (a nonzero number of a SQLite column).
NullText == Text("null", 0, "other", FALSE, "")
JunkTexts == {Text("junk", 0, sh, FALSE, "") : sh \in {"T", "other"}}
NumberValue == Text("number", 0, "", FALSE, "")
TimestampTexts ==
    {Text("text", w, sh, f, z) : w \in 0..MaxWall, sh \in {"T", "space"},
                                 f \in BOOLEAN, z \in Zones}
    \cup {Text("text", w, "date", FALSE, "") : w \in 0..MaxWall}
Texts == {NoneText, EmptyText, NullText, NumberValue} \cup JunkTexts \cup TimestampTexts

\* A datetime: naive (aware = FALSE) or aware with a UTC offset.  NoValue is
\* Python's None.  Raised stands for an exception leaving the expression
\* (ValueError, TypeError, AttributeError) in place of a value.
DateTime(w, f, a, off) ==
    [null |-> FALSE, wall |-> w, frac |-> f, aware |-> a, offset |-> off, raised |-> FALSE]
NoValue ==
    [null |-> TRUE, wall |-> 0, frac |-> FALSE, aware |-> FALSE, offset |-> 0, raised |-> FALSE]
Raised ==
    [null |-> TRUE, wall |-> 0, frac |-> FALSE, aware |-> FALSE, offset |-> 0, raised |-> TRUE]

\* astimezone(timezone.utc) of a wall-clock value at an offset.
\* (The mutant adds the offset.)
ToUtcAdded(w, off) == w + off
ToUtc(w, off) == w - off

\* str.replace('Z', new) on the zone suffix.
ReplaceZ(t, new) == IF t.zone = "Z" THEN [t EXCEPT !.zone = new] ELSE t

\* datetime.fromisoformat: any separator, optional fraction, optional offset;
\* a 'Z' suffix, or a text that shows no timestamp, raises ValueError.
fromisoformat(t) ==
    IF t.kind # "text" \/ t.zone = "Z" THEN Raised
    ELSE DateTime(t.wall, t.frac, t.zone # "", ZoneOffset(t.zone))

\* datetime.strptime(text, '%Y-%m-%d %H:%M:%S'): exactly that shape, or
\* ValueError.
strptime(t) ==
    IF t.kind = "text" /\ t.shape = "space" /\ ~t.frac /\ t.zone = ""
    THEN DateTime(t.wall, FALSE, FALSE, 0)
    ELSE Raised

\* "if not x: return None": None, the empty string.
Falsy(t) == t.kind \in {"none", "empty"}

\* "except Exception as e: print(...); return None" around the body of
\* convert_sqlite_timestamp.  (The mutant lets the exception through.)
LetThrough(dt) == dt
ReturnNoneOnError(dt) == IF dt.raised THEN NoValue ELSE dt

\* convert_sqlite_timestamp: the parsed value's tzinfo is replaced by SAST,
\* whatever it was, and the result is expressed in UTC.  The test
\* "'T' in sqlite_ts" is inside the try and raises TypeError for a number.
convert_sqlite_timestamp(t) ==
    IF Falsy(t) THEN NoValue
    ELSE ReturnNoneOnError(
           LET dt == IF t.kind = "number" THEN Raised
                     ELSE IF t.shape = "T" THEN fromisoformat(ReplaceZ(t, ""))
                     ELSE strptime(t)
           IN  IF dt.raised THEN Raised
               ELSE DateTime(ToUtc(dt.wall, SAST_OFFSET), dt.frac, TRUE, 0))

\* convert_datetime_to_timestamptz: only a naive value is given the SAST
\* offset.  A value that is no text is used as it is, and reading its tzinfo
\* raises AttributeError; every exception is caught and None returned.
convert_datetime_to_timestamptz(t) ==
    IF Falsy(t) THEN NoValue
    ELSE LET dt == IF t.kind = "number" THEN Raised
                   ELSE fromisoformat(ReplaceZ(t, "+00:00"))
         IN  IF dt.raised THEN NoValue
             ELSE IF dt.aware THEN dt
             ELSE DateTime(dt.wall, dt.frac, TRUE, SAST_OFFSET)

\* clean_timestamp (migrate-final.py): None for a falsy value and for the
\* literal 'null'; otherwise datetime.fromisoformat(str(ts).replace('Z',
\* '+00:00')), naive or aware as written, and None when that raises (a bare
\* except).  str() of a number shows no timestamp.  The values read from
\* SQLite are never datetime objects (no detect_types in sqlite3.connect).
clean_timestamp(t) ==
    IF Falsy(t) \/ t.kind = "null" THEN NoValue
    ELSE LET dt == fromisoformat(ReplaceZ(t, "+00:00"))
         IN  IF dt.raised THEN NoValue ELSE dt

\* The absolute instant an aware datetime denotes, in hours of UTC.
InstantOf(dt) == ToUtc(dt.wall, dt.offset)

\* datetime.isoformat() of an aware UTC value: the canonical text form.
isoformat(dt) == Text("text", dt.wall, "T", dt.frac, "+00:00")

InitTS ==
    /\ IdleDM /\ IdlePM /\ IdleMF /\ IdleCW /\ IdleCF
    /\ statusNullable = TRUE
    /\ pcPS = "off" /\ order_id_map = <<>> /\ default_user_id = 0
    /\ skipped_stops = 0 /\ resultPS = "none"
    /\ sqlite = <<>> /\ pg = <<>> /\ pgTx = <<>> /\ txAborted = FALSE
    /\ started = <<>> /\ outcome = <<>>
    /\ pcTS = "in"
    /\ tsIn \in Texts
    /\ tsDM = NoValue
    /\ tsPM = NoValue
    /\ tsBack = NoValue
    /\ tsCT = NoValue

\* The three conversions applied to the same value.
TS_Convert ==
    /\ pcTS = "in"
    /\ tsDM' = convert_sqlite_timestamp(tsIn)
    /\ tsPM' = convert_datetime_to_timestamptz(tsIn)
    /\ tsCT' = clean_timestamp(tsIn)
    /\ pcTS' = "converted"
    /\ UNCHANGED <<tsIn, tsBack, statusNullable, varsPS, varsCW, varsCF, varsStore,
                   varsPlan,
                   varsDM, varsPM, varsMF>>

\* The result of convert_sqlite_timestamp, written as text and converted
\* again.
TS_RoundTrip ==
    /\ pcTS = "converted"
    /\ ~tsDM.null
    /\ tsBack' = convert_sqlite_timestamp(isoformat(tsDM))
    /\ pcTS' = "back"
    /\ UNCHANGED <<tsIn, tsDM, tsPM, tsCT, statusNullable, varsPS, varsCW, varsCF, varsStore,
                   varsPlan,
                   varsDM, varsPM, varsMF>>

NextTS == TS_Convert \/ TS_RoundTrip

SpecTS == InitTS /\ [][NextTS]_vars

\* C18: for every text whose conversion is not null, converting the
\* canonical text form of the result gives the same instant again:
\* normalize(format(normalize(x))) = normalize(x).
C18_RoundTripSameInstant ==
    pcTS = "back" => (~tsBack.null /\ InstantOf(tsBack) = InstantOf(tsDM))

\* C19: a text that already denotes an absolute instant (a 'Z' suffix or an
\* explicit UTC offset) is converted by convert_sqlite_timestamp to that same
\* instant, not shifted by the reference offset.
C19_AbsoluteInstantKept ==
    (pcTS # "in" /\ tsIn.kind = "text" /\ tsIn.zone # "" /\ ~tsDM.null) =>
        InstantOf(tsDM) = ToUtc(tsIn.wall, ZoneOffset(tsIn.zone))

\* C20 as claimed: a text without zone is taken as local time at +02:00:
\* convert_sqlite_timestamp returns the UTC instant two hours before the
\* wall-clock value, and convert_datetime_to_timestamptz returns a value
\* denoting the same instant.
C20_NaiveIsSAST ==
    (pcTS # "in" /\ tsIn.kind = "text" /\ tsIn.zone = "") =>
        /\ ~tsDM.null /\ tsDM.offset = 0 /\ InstantOf(tsDM) = tsIn.wall - 2
        /\ ~tsPM.null /\ InstantOf(tsPM) = tsIn.wall - 2

\* The texts without zone that convert_sqlite_timestamp parses.
ParsedByDM(t) == t.shape = "T" \/ (t.shape = "space" /\ ~t.frac)

\* C20 as amended: a text without zone that the function parses is taken as
\* local time at +02:00: convert_sqlite_timestamp parses 'date T time' and
\* 'YYYY-MM-DD HH:MM:SS' and returns the UTC instant two hours before the
\* wall-clock value; for a date alone or a blank separator with fractional
\* seconds it returns None; convert_datetime_to_timestamptz parses all of
\* them and returns a value denoting the instant two hours before the
\* wall-clock value.
C20_ParsedNaiveIsSAST ==
    (pcTS # "in" /\ tsIn.kind = "text" /\ tsIn.zone = "") =>
        /\ ~tsPM.null /\ InstantOf(tsPM) = tsIn.wall - 2
        /\ ParsedByDM(tsIn) =>
              ~tsDM.null /\ tsDM.offset = 0 /\ InstantOf(tsDM) = tsIn.wall - 2
        /\ ~ParsedByDM(tsIn) => tsDM.null

C20_Witness ==
    /\ pcTS = "converted"
    /\ tsIn.kind = "text" /\ tsIn.zone = "" /\ tsIn.shape = "space" /\ ~tsIn.frac
    /\ tsIn.wall = 3
    /\ tsDM = DateTime(1, FALSE, TRUE, 0)
    /\ tsPM = DateTime(3, FALSE, TRUE, 2)

\* C21: clean_timestamp and convert_sqlite_timestamp return None, and do not
\* raise, for None, the empty string, the literal 'null', a text that shows
\* no timestamp and a value that is no text; and they raise for no value at
\* all.
C21_NoneAndNeverRaises ==
    pcTS # "in" =>
        /\ ~tsDM.raised /\ ~tsCT.raised
        /\ tsIn.kind # "text" => (tsDM = NoValue /\ tsCT = NoValue)

C21_Witness ==
    /\ pcTS = "converted"
    /\ tsIn = NumberValue
    /\ tsDM = NoValue /\ tsCT = NoValue

(***************************************************************************)
(* Claims about reruns and reconciliation in DatabaseMigrator              *)
(***************************************************************************)
\* No row of source table t is refused for what it is: its data is
\* accepted and its references exist in the target.
RowsAcceptable(t) ==
    \A i \in DOMAIN sqlite[t] : ~sqlite[t][i].bad /\ FKOk(t, sqlite[t][i], pg)

StepsOver == pcDM \in {"validate", "summary", "done", "raised"}

NoStepFailed == \A t \in DMTables : outcome[t] \in {"committed", "empty"}

C13_ReturnsWhetherCountsMatch ==
    /\ pcDM = "summary" => pg = pgTx
    /\ pcDM \in {"done", "raised"} =>
          /\ resultDM # "none"
          /\ (resultDM = "True") = (\A t \in DMTables : Len(sqlite[t]) = Cardinality(pg[t]))

(***************************************************************************)
(* Claims about one call of DatabaseMigrator.migrate_table_data            *)
(***************************************************************************)

\* C27: when the call of migrate_table_data for a table fails, the
\* transaction is rolled back (no change is left in flight), every target
\* table holds what it held before the call, and the call returns 0.
C27_FailedCallLeavesTarget ==
    (started # <<>> /\ LastStarted # "environments"
       /\ outcome[LastStarted] = "rolledback") =>
        /\ pgTx = pg
        /\ \A u \in DMTables : pg[u] = pgBefore[u]
        /\ migration_summary[LastStarted] = 0

\* The call for production_stops failed although the target already held
\* rows of other tables.
C27_Witness ==
    /\ started # <<>> /\ LastStarted = "production_stops"
    /\ outcome["production_stops"] = "rolledback"
    /\ migration_summary["production_stops"] = 0
    /\ pg["production_orders"] # {}
    /\ pg = pgBefore

C29_AlwaysReturnsAndCloses ==
    /\ pcDM # "raised"
    /\ StepsOver => \A t \in DMTables : migration_summary[t] \in Nat
    /\ FinishedDM => (resultDM \in {"True", "False"} /\ ~connOpen)

(***************************************************************************)
(* migrate_production_stops (migrate-production-stops.py)                  *)
(*                                                                         *)
(* The source keeps id and order_number of its orders and the rows of      *)
(* production_stops; the target keeps the ids of its users, id and         *)
(* order_number of its orders (loaded by an earlier script, under the same *)
(* ids or under ids shifted by one) and its production_stops.              *)
(* valid_user_ids, stopIdx and migrated_stops are the script's variables   *)
(* of the same names as in migrate_final.                                  *)
(***************************************************************************)
\* Source production_stops holds at most this many rows.
MaxStops == 2

\* A source order: its order_number is its own, or that of order 1 again
\* (nothing in the script makes the order_numbers it reads distinct).
PSOrder(i, k) == [id |-> i, order_number |-> OrderNumber(k)]
PSOrderRow(i) == {PSOrder(i, k) : k \in {1, i}}
PSStopRow(i) == {SrcStop(i, oid, o) : oid \in 1..MaxOrders, o \in {None, 2}}

\* The target orders made from some of the source orders, their ids shifted,
\* with or without a further order that has the order_number of order 1.
TargetOrders(n, shift) ==
    {{[id |-> i + shift, order_number |-> OrderNumber(i)] : i \in S} \cup extra :
        S \in SUBSET (1..n),
        extra \in {{}, {[id |-> n + shift + 1, order_number |-> OrderNumber(1)]}}}

\* A stop the target already holds.
OldStop == [order_id |-> 1, operator_id |-> None, src_id |-> 0, src_order |-> 0]

\* "pg_orders = {row[1]: row[0] for row in pg_cursor.fetchall()}": one id per
\* order_number of the target; of two target orders with one order_number
\* the row fetched last stays, and the SELECT has no ORDER BY.
\* (The mutant takes any target id for an order_number.)
PgOrdersAnyId(tgt) == [{r.order_number : r \in tgt} -> Ids(tgt)]
PgOrders(tgt) ==
    {f \in [{r.order_number : r \in tgt} -> Ids(tgt)] :
        \A k \in DOMAIN f : \E r \in tgt : r.order_number = k /\ r.id = f[k]}

\* "order_id_map[sqlite_id] = pg_orders[order_number]" for the source orders
\* whose order_number the target has, for one pg_orders.
OrderIdMap(src, pg_orders) ==
    LET mapped == {i \in DOMAIN src : src[i].order_number \in DOMAIN pg_orders}
    IN  [k \in {src[i].id : i \in mapped} |->
            LET i == CHOOSE j \in mapped : src[j].id = k
            IN  pg_orders[src[i].order_number]]

SetMin(S) == CHOOSE x \in S : \A y \in S : x <= y

\* "default_user_id = min(valid_user_ids) if valid_user_ids else 4"
DefaultUserId(valid) == IF valid # {} THEN SetMin(valid) ELSE 4

\* "if operator_id and operator_id not in valid_user_ids:
\*      operator_id = default_user_id"
FallbackOperator(key, valid, fallback) ==
    IF key # None /\ key \notin valid THEN fallback ELSE key

\* "skipped_stops += 1" of the branch that skips an unmapped order.
\* (The mutant leaves the counter alone.)
SkipForgotten(n) == n
SkipCounted(n) == n + 1

InitPS ==
    /\ IdleDM /\ IdlePM /\ IdleCW /\ IdleCF
    /\ statusNullable = TRUE
    /\ pcTS = "off" /\ tsIn = <<>> /\ tsDM = <<>> /\ tsPM = <<>> /\ tsBack = <<>>
    /\ tsCT = <<>>
    /\ pcMF = "off" /\ pgSeq = 0 /\ valid_machine_ids = {} /\ orderIdx = 0
    /\ migrated_orders = 0 /\ skipped_orders = 0 /\ migrated_order_ids = {}
    /\ resultMF = "none"
    /\ \E n \in 0..MaxOrders, shift \in {0, 1} :
          /\ sqlite \in [production_orders : {q \in TablesUpTo(n, PSOrderRow) : Len(q) = n},
                         production_stops : TablesUpTo(MaxStops, PSStopRow)]
          /\ pg \in [users : SUBSET {1, 2},
                     production_orders : TargetOrders(n, shift),
                     production_stops : {{}, {OldStop}}]
    /\ \A s \in pg["production_stops"] : s.order_id \in Ids(pg["production_orders"])
    /\ pgTx = pg
    /\ txAborted = FALSE
    /\ started = <<>>
    /\ outcome = <<>>
    /\ pcPS = "start"
    /\ order_id_map = <<>>
    /\ valid_user_ids = {}
    /\ default_user_id = 0
    /\ stopIdx = 0
    /\ migrated_stops = 0
    /\ skipped_stops = 0
    /\ resultPS = "none"

\* Steps 1 to 3 up to the loop: the order id map, the user keys, the
\* fallback user, and "DELETE FROM production_stops".
PS_Start ==
    /\ pcPS = "start"
    /\ \E pg_orders \in PgOrders(pgTx["production_orders"]) :
          order_id_map' = OrderIdMap(sqlite["production_orders"], pg_orders)
    /\ valid_user_ids' = pgTx["users"]
    /\ default_user_id' = DefaultUserId(pgTx["users"])
    /\ pgTx' = [pgTx EXCEPT !["production_stops"] = {}]
    /\ stopIdx' = 1
    /\ pcPS' = "stops"
    /\ UNCHANGED <<sqlite, pg, txAborted, varsPlan, migrated_stops, skipped_stops, resultPS,
                   pcMF, pgSeq, valid_machine_ids, orderIdx, migrated_orders,
                   skipped_orders, migrated_order_ids, resultMF,
                   statusNullable, varsTS, varsCW, varsCF, varsDM, varsPM>>

\* One iteration of "for stop in stops".
PS_Stop ==
    /\ pcPS = "stops"
    /\ stopIdx <= Len(sqlite["production_stops"])
    /\ LET s == sqlite["production_stops"][stopIdx]
           op == FallbackOperator(s.operator_id, valid_user_ids, default_user_id)
       IN  IF s.order_id \notin DOMAIN order_id_map
           THEN /\ skipped_stops' = SkipCounted(skipped_stops)
                /\ UNCHANGED <<pgTx, txAborted, migrated_stops>>
           ELSE LET row == [order_id |-> order_id_map[s.order_id], operator_id |-> op,
                            src_id |-> s.id, src_order |-> s.order_id]
                IN  IF txAborted \/ ~StopRefsOk(row, pgTx)
                    THEN /\ skipped_stops' = skipped_stops + 1
                         /\ txAborted' = TRUE
                         /\ UNCHANGED <<pgTx, migrated_stops>>
                    ELSE /\ pgTx' = [pgTx EXCEPT !["production_stops"] = @ \cup {row}]
                         /\ migrated_stops' = migrated_stops + 1
                         /\ UNCHANGED <<txAborted, skipped_stops>>
    /\ stopIdx' = stopIdx + 1
    /\ UNCHANGED <<sqlite, pg, varsPlan, pcPS, order_id_map, default_user_id, resultPS,
                   valid_user_ids, pcMF, pgSeq, valid_machine_ids, orderIdx,
                   migrated_orders, skipped_orders, migrated_order_ids, resultMF,
                   statusNullable, varsTS, varsCW, varsCF, varsDM, varsPM>>

\* "pg_conn.commit()" after the loop; the validation queries only read, and
\* the function returns True.
PS_Commit ==
    /\ pcPS = "stops"
    /\ stopIdx > Len(sqlite["production_stops"])
    /\ pg' = CommitView(pg, pgTx, txAborted)
    /\ pgTx' = pg'
    /\ txAborted' = FALSE
    /\ pcPS' = "done"
    /\ resultPS' = "True"
    /\ UNCHANGED <<sqlite, varsPlan, order_id_map, default_user_id, skipped_stops,
                   varsMF, statusNullable, varsTS, varsCW, varsCF, varsDM, varsPM>>

NextPS == PS_Start \/ PS_Stop \/ PS_Commit

SpecPS == InitPS /\ [][NextPS]_vars

\* C15: the fallback user of migrate_production_stops is a key of an
\* existing target user, and every committed production_stops row has an
\* operator_id that is null or the key of a target user, whatever users the
\* target holds.
C15_FallbackIsTargetUser ==
    pcPS \in {"stops", "done"} =>
        /\ default_user_id \in pg["users"]
        /\ \A s \in pg["production_stops"] :
              s.operator_id = None \/ s.operator_id \in pg["users"]

\* C16: in migrate_production_stops a stop whose order_id has no mapped
\* target order is not inserted and is counted as skipped, a stop whose
\* insert raises is counted as skipped, and when the loop has ended
\* migrated_stops + skipped_stops is the number of source stops read.
C16_EveryStopCounted ==
    /\ [](/\ pcPS = "stops" => migrated_stops + skipped_stops = stopIdx - 1
          /\ pcPS = "done" =>
                migrated_stops + skipped_stops = Len(sqlite["production_stops"]))
    /\ [][(pcPS = "stops" /\ stopIdx' = stopIdx + 1) =>
            LET s == sqlite["production_stops"][stopIdx]
            IN  /\ s.order_id \notin DOMAIN order_id_map =>
                      /\ pgTx' = pgTx
                      /\ skipped_stops' = skipped_stops + 1
                      /\ migrated_stops' = migrated_stops
                /\ pgTx'["production_stops"] = pgTx["production_stops"] =>
                      /\ skipped_stops' = skipped_stops + 1
                      /\ migrated_stops' = migrated_stops
                /\ pgTx'["production_stops"] # pgTx["production_stops"] =>
                      /\ skipped_stops' = skipped_stops
                      /\ migrated_stops' = migrated_stops + 1]_vars

C16_Witness ==
    /\ pcPS = "done"
    /\ Len(sqlite["production_stops"]) = 2
    /\ sqlite["production_stops"][1].order_id \notin DOMAIN order_id_map
    /\ migrated_stops = 1
    /\ skipped_stops = 1
    /\ Cardinality(pg["production_stops"]) = 1

\* The order_number of the source order with id k.
SrcNumber(k) ==
    LET q == sqlite["production_orders"]
    IN  q[CHOOSE i \in DOMAIN q : q[i].id = k].order_number

\* C25 as claimed: the order id map is injective, and two stops of different
\* source orders are never attached to one target order.
C25_MapInjective ==
    pcPS \in {"stops", "done"} =>
        /\ \A a, b \in DOMAIN order_id_map :
              a # b => order_id_map[a] # order_id_map[b]
        /\ \A x, y \in {z \in pgTx["production_stops"] : z.src_id # 0} :
              x.src_order # y.src_order => x.order_id # y.order_id

\* C25 as amended: every mapped source order is mapped to a target order
\* with its order_number; two source orders are mapped to one target order
\* only when they have the same order_number, and two stops are attached to
\* one target order only when their source orders have the same
\* order_number.
C25_MapInjectiveUpToOrderNumber ==
    pcPS \in {"stops", "done"} =>
        /\ \A a \in DOMAIN order_id_map :
              \E r \in pg["production_orders"] :
                  r.id = order_id_map[a] /\ r.order_number = SrcNumber(a)
        /\ \A a, b \in DOMAIN order_id_map :
              order_id_map[a] = order_id_map[b] => SrcNumber(a) = SrcNumber(b)
        /\ \A x, y \in {z \in pgTx["production_stops"] : z.src_id # 0} :
              x.order_id = y.order_id => SrcNumber(x.src_order) = SrcNumber(y.src_order)

\* Two source orders with different order_numbers, both mapped, and a stop of
\* each committed.
C25_Witness ==
    /\ pcPS = "done"
    /\ DOMAIN order_id_map = {1, 2}
    /\ SrcNumber(1) # SrcNumber(2)
    /\ \E x, y \in pg["production_stops"] : x.src_order = 1 /\ y.src_order = 2

(***************************************************************************)
(* Claims about the order rows migrate_final writes                        *)
(***************************************************************************)
\* The source order a committed target order was made from.
SourceOf(r) == sqlite["production_orders"][r.src_id]

MigratedOrders == {r \in pg["production_orders"] : r.src_id # 0}

\* C14: a null machine_id, operator_id or created_by of a source order is
\* written to the target as null, never replaced by another key.
C14_NullReferencesStayNull ==
    pcMF # "off" =>
        \A r \in MigratedOrders :
            /\ SourceOf(r).machine_id = None => r.machine_id = None
            /\ SourceOf(r).operator_id = None => r.operator_id = None
            /\ SourceOf(r).created_by = None => r.created_by = None

\* C17: when the status (priority, environment) of a source order is NULL,
\* the committed target row holds the declared default 'pending' ('normal',
\* 'production'), not null.
C17_AbsentStatusGetsDefault ==
    pcMF # "off" =>
        \A r \in MigratedOrders :
            SourceOf(r).status = NoStatus => r.status = "pending"

(***************************************************************************)
(* migrate_complete_working (migrate-complete-working.py)                  *)
(*                                                                         *)
(* The stores are those of migrate_final.  The target holds one order left *)
(* by an earlier migration and no production_stops when the script starts. *)
(* valid_machine_ids, valid_user_ids, default_user_id, orderIdx,           *)
(* migrated_orders, stopIdx and migrated_stops are the script's variables  *)
(* of the same names as in migrate_final and migrate_production_stops.     *)
(***************************************************************************)

\* "SELECT id, username FROM users ORDER BY id LIMIT 10"
UserLimit == 10

\* A target with one user more than the query returns.
ManyUsers == 1..(UserLimit + 1)

\* The ids of the first UserLimit users in id order.
FirstUsers(users) == {u \in users : Cardinality({v \in users : v < u}) < UserLimit}

CWOrderRow(i) ==
    {SrcOrder(i, m, o, c, "pending") :
        m \in {None, 1}, o \in {None, UserLimit + 1}, c \in {None, 1, UserLimit + 1}}
CWStopRow(i) == {SrcStop(i, oid, None) : oid \in 1..MaxOrders}

\* "if not created_by or created_by not in valid_user_ids:
\*      created_by = default_user_id"
CreatedByOrDefault(key, valid, fallback) ==
    IF key = None \/ key \notin valid THEN fallback ELSE key

\* The row migrate_complete_working inserts for source order o.
TransformOrderCW(o) ==
    [order_number |-> o.order_number,
     machine_id |-> NullIfInvalid(o.machine_id, valid_machine_ids),
     operator_id |-> NullIfInvalid(o.operator_id, valid_user_ids),
     created_by |-> CreatedByOrDefault(o.created_by, valid_user_ids, default_user_id),
     status |-> DictGet(o.status, "pending"),
     src_id |-> o.id]

\* "pg_conn.commit()  # Commit the deletion": what the target holds, committed,
\* after the DELETE.  (The mutant leaves the deletion in the transaction in
\* flight.)
DeletionInFlight(committed, view) == committed
CommitDeletion(committed, view) == view

\* What migrate_complete_working does not touch.
varsOffCW ==
    <<varsPlan, skipped_orders, migrated_order_ids, pcMF, resultMF, pcPS, order_id_map,
      skipped_stops, resultPS, statusNullable, varsTS, varsCF, varsDM, varsPM>>

InitCW ==
    /\ IdleDM /\ IdlePM /\ IdleCF
    /\ statusNullable = TRUE
    /\ pcTS = "off" /\ tsIn = <<>> /\ tsDM = <<>> /\ tsPM = <<>> /\ tsBack = <<>>
    /\ tsCT = <<>>
    /\ pcPS = "off" /\ order_id_map = <<>> /\ skipped_stops = 0 /\ resultPS = "none"
    /\ pcMF = "off" /\ skipped_orders = 0 /\ migrated_order_ids = {} /\ resultMF = "none"
    /\ sqlite \in [machines : {{1}},
                   production_orders : TablesUpTo(MaxOrders, CWOrderRow),
                   production_stops : TablesUpTo(MaxStops, CWStopRow)]
    /\ pg \in [users : {{}, ManyUsers},
               machines : SUBSET {1},
               production_orders : {{OldOrder}},
               production_stops : {{}}]
    /\ pgSeq = 1
    /\ pgTx = pg
    /\ txAborted = FALSE
    /\ started = <<>>
    /\ outcome = <<>>
    /\ pcCW = "start"
    /\ resultCW = "none"
    /\ valid_machine_ids = {}
    /\ valid_user_ids = {}
    /\ default_user_id = 0
    /\ orderIdx = 0
    /\ migrated_orders = 0
    /\ stopIdx = 0
    /\ migrated_stops = 0

\* Step 1 and step 2 up to the loop: the key sets, the fallback user, and
\* "DELETE FROM production_orders" with its commit.
CW_Start ==
    /\ pcCW = "start"
    /\ valid_machine_ids' = ValidMachineIds(sqlite)
    /\ valid_user_ids' = FirstUsers(pg["users"])
    /\ default_user_id' = DefaultUserId(valid_user_ids')
    /\ pgTx' = [pgTx EXCEPT !["production_orders"] = {}]
    /\ pg' = CommitDeletion(pg, pgTx')
    /\ orderIdx' = 1
    /\ pcCW' = "orders"
    /\ UNCHANGED <<sqlite, txAborted, pgSeq, migrated_orders, stopIdx, migrated_stops,
                   resultCW, varsOffCW>>

\* One iteration of "for order in orders".  The INSERT raises when the
\* transaction is aborted or a foreign key is violated; the exception is
\* caught and printed.
CW_Order ==
    /\ pcCW = "orders"
    /\ orderIdx <= Len(sqlite["production_orders"])
    /\ LET r == TransformOrderCW(sqlite["production_orders"][orderIdx])
           row == [id |-> pgSeq + 1, order_number |-> r.order_number,
                   machine_id |-> r.machine_id, operator_id |-> r.operator_id,
                   created_by |-> r.created_by, status |-> r.status,
                   src_id |-> r.src_id]
       IN  IF txAborted
           THEN UNCHANGED <<pgTx, txAborted, pgSeq, migrated_orders>>
           ELSE IF ~OrderRefsOk(r, pgTx)
           THEN /\ txAborted' = TRUE
                /\ pgSeq' = pgSeq + 1
                /\ UNCHANGED <<pgTx, migrated_orders>>
           ELSE /\ pgTx' = [pgTx EXCEPT !["production_orders"] = @ \cup {row}]
                /\ pgSeq' = pgSeq + 1
                /\ migrated_orders' = migrated_orders + 1
                /\ UNCHANGED txAborted
    /\ orderIdx' = orderIdx + 1
    /\ UNCHANGED <<sqlite, pg, pcCW, valid_machine_ids, valid_user_ids,
                   default_user_id, stopIdx, migrated_stops, resultCW, varsOffCW>>

\* "pg_conn.commit()" after the loop, and "if migrated_orders > 0".
CW_CommitOrders ==
    /\ pcCW = "orders"
    /\ orderIdx > Len(sqlite["production_orders"])
    /\ pg' = CommitView(pg, pgTx, txAborted)
    /\ pgTx' = pg'
    /\ txAborted' = FALSE
    /\ pcCW' = IF migrated_orders > 0 THEN "stops_begin" ELSE "summary"
    /\ UNCHANGED <<sqlite, pgSeq, valid_machine_ids, valid_user_ids, default_user_id,
                   orderIdx, migrated_orders, stopIdx, migrated_stops, resultCW,
                   varsOffCW>>

\* Step 3 up to the loop: "if stops:" and "DELETE FROM production_stops".
CW_BeginStops ==
    /\ pcCW = "stops_begin"
    /\ pgTx' = IF sqlite["production_stops"] # <<>>
               THEN [pgTx EXCEPT !["production_stops"] = {}] ELSE pgTx
    /\ stopIdx' = 1
    /\ pcCW' = "stops"
    /\ UNCHANGED <<sqlite, pg, txAborted, pgSeq, valid_machine_ids, valid_user_ids,
                   default_user_id, orderIdx, migrated_orders, migrated_stops,
                   resultCW, varsOffCW>>

\* The target order with the order_number of source order k, looked up by
\* two SELECTs; None when the source or the target has no such order.
PgOrderFor(k, src, view) ==
    IF \E i \in DOMAIN src : src[i].id = k
    THEN LET n == src[CHOOSE i \in DOMAIN src : src[i].id = k].order_number
         IN  IF \E r \in view : r.order_number = n
             THEN (CHOOSE r \in view : r.order_number = n).id
             ELSE None
    ELSE None

\* One iteration of "for stop in stops".
CW_Stop ==
    /\ pcCW = "stops"
    /\ stopIdx <= Len(sqlite["production_stops"])
    /\ LET s == sqlite["production_stops"][stopIdx]
           pg_order_id == PgOrderFor(s.order_id, sqlite["production_orders"],
                                     pgTx["production_orders"])
           row == [order_id |-> pg_order_id,
                   operator_id |-> FallbackOperator(s.operator_id, valid_user_ids,
                                                    default_user_id),
                   src_id |-> s.id, src_order |-> s.order_id]
       IN  IF txAborted \/ pg_order_id = None
           THEN UNCHANGED <<pgTx, txAborted, migrated_stops>>
           ELSE IF ~StopRefsOk(row, pgTx)
           THEN txAborted' = TRUE /\ UNCHANGED <<pgTx, migrated_stops>>
           ELSE /\ pgTx' = [pgTx EXCEPT !["production_stops"] = @ \cup {row}]
                /\ migrated_stops' = migrated_stops + 1
                /\ UNCHANGED txAborted
    /\ stopIdx' = stopIdx + 1
    /\ UNCHANGED <<sqlite, pg, pgSeq, pcCW, valid_machine_ids, valid_user_ids,
                   default_user_id, orderIdx, migrated_orders, resultCW, varsOffCW>>

\* "pg_conn.commit()" after the loop of the stops.
CW_CommitStops ==
    /\ pcCW = "stops"
    /\ stopIdx > Len(sqlite["production_stops"])
    /\ pg' = CommitView(pg, pgTx, txAborted)
    /\ pgTx' = pg'
    /\ txAborted' = FALSE
    /\ pcCW' = "summary"
    /\ UNCHANGED <<sqlite, pgSeq, valid_machine_ids, valid_user_ids, default_user_id,
                   orderIdx, migrated_orders, stopIdx, migrated_stops, resultCW,
                   varsOffCW>>

\* Step 4: the counts and the test queries only read;
\* migrate_complete_working returns True.
CW_Summary ==
    /\ pcCW = "summary"
    /\ pcCW' = "done"
    /\ resultCW' = "True"
    /\ UNCHANGED <<varsStore, pgSeq, valid_machine_ids, valid_user_ids, default_user_id,
                   orderIdx, migrated_orders, stopIdx, migrated_stops, varsOffCW>>

NextCW ==
    \/ CW_Start \/ CW_Order \/ CW_CommitOrders \/ CW_BeginStops
    \/ CW_Stop \/ CW_CommitStops \/ CW_Summary

SpecCW == InitCW /\ [][NextCW]_vars

OrdersCommittedCW == pcCW \in {"stops_begin", "stops", "summary", "done"}

\* The rows of production_orders this run committed.
ReloadedOrders == {r \in pg["production_orders"] : r.src_id # 0}

\* C24: every committed order keeps an operator_id and a created_by that are
\* keys of users of the target, whatever number of users the target holds;
\* only a reference to a user the target does not hold is changed.
C24_ValidReferencesKept ==
    OrdersCommittedCW =>
        \A r \in ReloadedOrders :
            LET o == sqlite["production_orders"][r.src_id]
            IN  /\ o.operator_id \in pg["users"] => r.operator_id = o.operator_id
                /\ o.created_by \in pg["users"] => r.created_by = o.created_by

tables_to_clear ==
    <<"labor_assignments", "production_stops", "production_orders", "machines",
      "environments">>

SetMax(S) == CHOOSE x \in S : \A y \in S : x >= y

\* The elements of a set of numbers in increasing order.
Sorted(S) == CHOOSE q \in [1..Cardinality(S) -> S] : \A i, j \in DOMAIN q : i < j => q[i] < q[j]

CFOrder(i, m, o) == [id |-> i, machine_id |-> m, operator_id |-> o]
CFOrderRow(i) == {CFOrder(i, m, o) : m \in {None, 1}, o \in {None, 2}}

\* The source stops: any ids of 1..MaxStops (a deleted row leaves a gap), in
\* id order, each of some order.
CFStops ==
    {[i \in 1..Cardinality(S) |-> [id |-> Sorted(S)[i], order_id |-> f[Sorted(S)[i]]]] :
        S \in SUBSET (1..MaxStops), f \in [1..MaxStops -> 1..MaxOrders]}

CFLabor(i) == [id |-> i, user_id |-> 1, machine_id |-> 1]

\* An order the target already holds (src_id 0: not made by this run).
OldOrderCF == [id |-> MaxOrders + 1, machine_id |-> None, operator_id |-> None, src_id |-> 0]

\* "pg_cursor.execute(f"SELECT setval('<t>_id_seq', {max_id}, true)")" under
\* "if rows:".
Setval(seq, t, ids) == IF ids = {} THEN seq ELSE [seq EXCEPT ![t] = SetMax(ids)]

\* Step 1: "DELETE FROM <table>" for every table of tables_to_clear, each in
\* its own try block, and one commit.  A DELETE that fails on the server
\* aborts the transaction: the DELETEs after it fail too and the commit
\* discards the ones before it.
Cleared(db, failed) ==
    IF failed THEN db
    ELSE [t \in DOMAIN db |-> IF t \in Range(tables_to_clear) THEN {} ELSE db[t]]

\* What migrate_complete_data does not touch.
varsOffCF ==
    <<varsPlan, valid_machine_ids, valid_user_ids, skipped_orders, migrated_order_ids,
      pcMF, resultMF, varsPS, statusNullable, varsTS, varsCW, varsDM, varsPM>>

InitCF ==
    /\ IdleDM /\ IdlePM /\ IdleCW
    /\ statusNullable = TRUE
    /\ pcTS = "off" /\ tsIn = <<>> /\ tsDM = <<>> /\ tsPM = <<>> /\ tsBack = <<>>
    /\ tsCT = <<>>
    /\ pcPS = "off" /\ order_id_map = <<>> /\ default_user_id = 0
    /\ skipped_stops = 0 /\ resultPS = "none"
    /\ pcMF = "off" /\ valid_machine_ids = {} /\ valid_user_ids = {}
    /\ skipped_orders = 0 /\ migrated_order_ids = {} /\ resultMF = "none"
    /\ sqlite \in [machines : SUBSET {1, 2},
                   environments : SUBSET {1},
                   production_orders : TablesUpTo(MaxOrders, CFOrderRow),
                   production_stops : CFStops,
                   labor_assignments : {<<>>, <<CFLabor(1)>>, <<CFLabor(2)>>}]
    /\ pg \in [users : {{1}},
               machines : SUBSET {1, 3},
               environments : SUBSET {1},
               production_orders : {{}, {OldOrderCF}},
               production_stops : {{}},
               labor_assignments : {{}}]
    /\ \E s \in {0, 1} :
          pgSeq = [machines |-> IF pg["machines"] = {} THEN 0 ELSE SetMax(pg["machines"]),
                   environments |-> Cardinality(pg["environments"]),
                   production_orders |-> IF pg["production_orders"] = {} THEN 0
                                         ELSE MaxOrders + 1,
                   production_stops |-> s,
                   labor_assignments |-> 0]
    /\ pgTx = pg
    /\ txAborted = FALSE
    /\ started = <<>>
    /\ outcome = <<>>
    /\ pcCF = "clear"
    /\ resultCF = "none"
    /\ machine_id_map = <<>>
    /\ orderIdx = 0
    /\ migrated_orders = 0
    /\ stopIdx = 0
    /\ migrated_stops = 0

\* "except Exception as e: ... pg_conn.rollback(); return False"
CF_Fail ==
    /\ pgTx' = pg
    /\ txAborted' = FALSE
    /\ pcCF' = "failed"
    /\ resultCF' = "False"

\* Step 1.  Whether a DELETE fails (a table of the list that the target does
\* not have, a row of another table that references a row to delete) is the
\* target's.
CF_Clear ==
    /\ pcCF = "clear"
    /\ \E failed \in BOOLEAN : pg' = Cleared(pg, failed)
    /\ pgTx' = pg'
    /\ pcCF' = "machines"
    /\ UNCHANGED <<sqlite, txAborted, pgSeq, resultCF, machine_id_map, orderIdx,
                   migrated_orders, stopIdx, migrated_stops, varsOffCF>>

\* Step 3: setval, the INSERT of every machine under its source id, and the
\* commit.  An INSERT that raises (the id is in the target already) ends the
\* run.
CF_Machines ==
    /\ pcCF = "machines"
    /\ pgSeq' = Setval(pgSeq, "machines", sqlite["machines"])
    /\ IF sqlite["machines"] \cap pgTx["machines"] # {}
       THEN /\ CF_Fail
            /\ UNCHANGED <<pg, machine_id_map>>
       ELSE /\ pg' = [pg EXCEPT !["machines"] = pgTx["machines"] \cup sqlite["machines"]]
            /\ pgTx' = pg'
            /\ machine_id_map' = [k \in sqlite["machines"] |-> k]
            /\ pcCF' = "environments"
            /\ UNCHANGED <<txAborted, resultCF>>
    /\ UNCHANGED <<sqlite, orderIdx, migrated_orders, stopIdx, migrated_stops, varsOffCF>>

\* Step 4, in a try block: setval, the INSERT of every environment under its
\* source id, and the commit.  The except branch prints and does not roll
\* back.
CF_Environments ==
    /\ pcCF = "environments"
    /\ pgSeq' = Setval(pgSeq, "environments", sqlite["environments"])
    /\ IF sqlite["environments"] \cap pgTx["environments"] # {}
       THEN /\ txAborted' = TRUE
            /\ UNCHANGED <<pg, pgTx>>
       ELSE /\ pg' = [pg EXCEPT !["environments"] =
                                    pgTx["environments"] \cup sqlite["environments"]]
            /\ pgTx' = pg'
            /\ UNCHANGED txAborted
    /\ pcCF' = "orders_begin"
    /\ UNCHANGED <<sqlite, resultCF, machine_id_map, orderIdx, migrated_orders, stopIdx,
                   migrated_stops, varsOffCF>>

\* Step 5 up to the loop: "if orders: setval".  The statement raises in an
\* aborted transaction, outside any inner try block.
CF_BeginOrders ==
    /\ pcCF = "orders_begin"
    /\ IF txAborted /\ sqlite["production_orders"] # <<>>
       THEN /\ CF_Fail
            /\ UNCHANGED <<pgSeq, orderIdx>>
       ELSE /\ pgSeq' = Setval(pgSeq, "production_orders",
                              {sqlite["production_orders"][i].id :
                                   i \in DOMAIN sqlite["production_orders"]})
            /\ orderIdx' = 1
            /\ pcCF' = "orders"
            /\ UNCHANGED <<pgTx, txAborted, resultCF>>
    /\ UNCHANGED <<sqlite, pg, machine_id_map, migrated_orders, stopIdx, migrated_stops,
                   varsOffCF>>

\* The target's checks on an order inserted under its id.
OrderAcceptedCF(r, view) ==
    /\ ~HasKey(view["production_orders"], r.id)
    /\ r.machine_id = None \/ r.machine_id \in view["machines"]
    /\ r.operator_id = None \/ r.operator_id \in view["users"]

\* One iteration of "for order in orders": an order of a machine that was not
\* migrated is skipped; the INSERT keeps the source id; an exception is
\* caught and printed.
CF_Order ==
    /\ pcCF = "orders"
    /\ orderIdx <= Len(sqlite["production_orders"])
    /\ LET o == sqlite["production_orders"][orderIdx]
           row == [id |-> o.id, machine_id |-> o.machine_id,
                   operator_id |-> o.operator_id, src_id |-> o.id]
       IN  IF o.machine_id # None /\ o.machine_id \notin DOMAIN machine_id_map
           THEN UNCHANGED <<pgTx, txAborted, migrated_orders>>
           ELSE IF txAborted
           THEN UNCHANGED <<pgTx, txAborted, migrated_orders>>
           ELSE IF ~OrderAcceptedCF(row, pgTx)
           THEN txAborted' = TRUE /\ UNCHANGED <<pgTx, migrated_orders>>
           ELSE /\ pgTx' = [pgTx EXCEPT !["production_orders"] = @ \cup {row}]
                /\ migrated_orders' = migrated_orders + 1
                /\ UNCHANGED txAborted
    /\ orderIdx' = orderIdx + 1
    /\ UNCHANGED <<sqlite, pg, pgSeq, pcCF, resultCF, machine_id_map, stopIdx,
                   migrated_stops, varsOffCF>>

\* "pg_conn.commit()" after the loop, and "if migrated_orders > 0".
CF_CommitOrders ==
    /\ pcCF = "orders"
    /\ orderIdx > Len(sqlite["production_orders"])
    /\ pg' = CommitView(pg, pgTx, txAborted)
    /\ pgTx' = pg'
    /\ txAborted' = FALSE
    /\ stopIdx' = 1
    /\ pcCF' = IF migrated_orders > 0 THEN "stops" ELSE "labor"
    /\ UNCHANGED <<sqlite, pgSeq, resultCF, machine_id_map, orderIdx, migrated_orders,
                   migrated_stops, varsOffCF>>

\* One iteration of "for stop in stops": the stop of an order the target
\* holds is inserted without an id, and the target draws the id from
\* production_stops_id_seq.
CF_Stop ==
    /\ pcCF = "stops"
    /\ stopIdx <= Len(sqlite["production_stops"])
    /\ LET s == sqlite["production_stops"][stopIdx]
           row == [id |-> pgSeq["production_stops"] + 1, order_id |-> s.order_id,
                   src_id |-> s.id]
       IN  IF txAborted \/ ~HasKey(pgTx["production_orders"], s.order_id)
           THEN UNCHANGED <<pgTx, txAborted, pgSeq, migrated_stops>>
           ELSE /\ pgSeq' = [pgSeq EXCEPT !["production_stops"] = @ + 1]
                /\ IF HasKey(pgTx["production_stops"], row.id)
                   THEN txAborted' = TRUE /\ UNCHANGED <<pgTx, migrated_stops>>
                   ELSE /\ pgTx' = [pgTx EXCEPT !["production_stops"] = @ \cup {row}]
                        /\ migrated_stops' = migrated_stops + 1
                        /\ UNCHANGED txAborted
    /\ stopIdx' = stopIdx + 1
    /\ UNCHANGED <<sqlite, pg, pcCF, resultCF, machine_id_map, orderIdx, migrated_orders,
                   varsOffCF>>

\* "pg_conn.commit()" after the loop of the stops.
CF_CommitStops ==
    /\ pcCF = "stops"
    /\ stopIdx > Len(sqlite["production_stops"])
    /\ pg' = CommitView(pg, pgTx, txAborted)
    /\ pgTx' = pg'
    /\ txAborted' = FALSE
    /\ pcCF' = "labor"
    /\ UNCHANGED <<sqlite, pgSeq, resultCF, machine_id_map, orderIdx, migrated_orders,
                   stopIdx, migrated_stops, varsOffCF>>

\* The labor_assignments rows step 7 inserts, and the sequence after them:
\* an assignment of a migrated machine is inserted without an id.
RECURSIVE InsertAssignments(_, _, _, _)
InsertAssignments(rows, i, view, seq) ==
    IF i > Len(rows) THEN [view |-> view, seq |-> seq]
    ELSE IF rows[i].machine_id \in DOMAIN machine_id_map
    THEN InsertAssignments(rows, i + 1,
             view \cup {[id |-> seq + 1, user_id |-> rows[i].user_id,
                         machine_id |-> rows[i].machine_id, src_id |-> rows[i].id]},
             seq + 1)
    ELSE InsertAssignments(rows, i + 1, view, seq)

\* Step 7: "if 'user_id' in pg_labor_columns", the loop and the commit.
\* Which columns the target's labor_assignments has is the target's.
CF_Labor ==
    /\ pcCF = "labor"
    /\ \E has_user_id \in BOOLEAN :
          IF has_user_id
          THEN LET r == InsertAssignments(sqlite["labor_assignments"], 1,
                                          pgTx["labor_assignments"],
                                          pgSeq["labor_assignments"])
               IN  /\ pg' = [pg EXCEPT !["labor_assignments"] = r.view]
                   /\ pgSeq' = [pgSeq EXCEPT !["labor_assignments"] = r.seq]
          ELSE UNCHANGED <<pg, pgSeq>>
    /\ pgTx' = pg'
    /\ pcCF' = "summary"
    /\ UNCHANGED <<sqlite, txAborted, resultCF, machine_id_map, orderIdx, migrated_orders,
                   stopIdx, migrated_stops, varsOffCF>>

\* The counts and the test queries only read; migrate_complete_data returns
\* True.
CF_Summary ==
    /\ pcCF = "summary"
    /\ pcCF' = "done"
    /\ resultCF' = "True"
    /\ UNCHANGED <<varsStore, pgSeq, machine_id_map, orderIdx, migrated_orders, stopIdx,
                   migrated_stops, varsOffCF>>

NextCF ==
    \/ CF_Clear \/ CF_Machines \/ CF_Environments \/ CF_BeginOrders \/ CF_Order
    \/ CF_CommitOrders \/ CF_Stop \/ CF_CommitStops \/ CF_Labor \/ CF_Summary

SpecCF == InitCF /\ [][NextCF]_vars

\* C23: after a successful run every row the run migrated has the primary
\* key it has in the source: the machines, the orders, the stops and the
\* labor assignments.
C23_PrimaryKeysPreserved ==
    resultCF = "True" =>
        /\ \A k \in DOMAIN machine_id_map : machine_id_map[k] = k
        /\ \A t \in {"production_orders", "production_stops", "labor_assignments"} :
              \A r \in pg[t] : r.src_id # 0 => r.id = r.src_id

\* C30: once the orders are committed, the id sequence of machines,
\* environments and production_orders is at least every id present in the
\* table, so that the next id drawn from it is not in the table.
C30_SequencesCoverIds ==
    pcCF \in {"stops", "labor", "summary", "done"} =>
        /\ \A k \in pg["machines"] : pgSeq["machines"] >= k
        /\ \A k \in pg["environments"] : pgSeq["environments"] >= k
        /\ \A r \in pg["production_orders"] : pgSeq["production_orders"] >= r.id

(***************************************************************************)
(* The three migration entry points side by side                           *)
(***************************************************************************)
\* migrate_final started on any source and on one target, which accepts
\* every row: what the run does to the source does not depend on the target.
InitMFOneTarget ==
    /\ InitMF
    /\ statusNullable
    /\ pg = [users |-> {1, 2}, machines |-> {1}, production_orders |-> {},
             production_stops |-> {}]
    /\ pgSeq = 0

SpecSources ==
    (InitDM \/ InitPM \/ InitMFOneTarget) /\ [][NextDM \/ NextPM \/ NextMF]_vars

====
